---- MODULE Spec2Model ----
(***************************************************************************)
(* Ridge-frequency estimation of src/utils/frequency.py.                   *)
(*                                                                         *)
(*   frequest    the per-block estimator (lines 6-63)                      *)
(*   ridge_freq  the whole-image driver  (lines 66-88)                     *)
(*                                                                         *)
(* Numbers.  Frequencies, mask weights and the median are exact rationals  *)
(* <<n, d>> in lowest terms with d > 0; not-a-number is <<0, 0>>.          *)
(* The cubic-spline rotation of line 33 is not computed: what it hands to  *)
(* the rest of frequest, the projected profile ridge_sum of line 43, is an *)
(* input drawn from the integer sequences of the length the crop of lines  *)
(* 38-40 leaves.                                                           *)
(***************************************************************************)
EXTENDS Integers, Sequences, FiniteSets, TLC

\* ------------------------------------------------------------------ bounds
MaxRows == 6       \* image rows are 1..MaxRows
MaxCols == 6       \* image columns are 1..MaxCols
MaxBlock == 5      \* block_size is -1..MaxBlock
MaxWave == 2       \* minWaveLength, maxWaveLength are 1..MaxWave
MaxVal == 2        \* samples of a projected profile are 0..MaxVal
MaxImRows == 7     \* side of a block handed to frequest on its own: 0..MaxImRows
MaxParRows == 11   \* image rows are 1..MaxParRows when the blocks are taken in any order
MaxParBlocks == 3  \* and the image has at most MaxParBlocks blocks

\* ------------------------------------------------------- program constants
peak_thresh == 2

\* --------------------------------------------------------------- rationals
RECURSIVE Gcd(_, _)
Gcd(a, b) == IF b = 0 THEN a ELSE Gcd(b, a % b)

Abs(x) == IF x < 0 THEN -x ELSE x

Max(S) == CHOOSE x \in S : \A y \in S : y <= x

NaN == <<0, 0>>
Zero == <<0, 1>>
One == <<1, 1>>
Half == <<1, 2>>

IsNaN(a) == a[2] = 0

\* n/d in lowest terms, d > 0 (d # 0)
Norm(n, d) ==
    LET g == Gcd(Abs(n), Abs(d))
        s == IF d < 0 THEN -1 ELSE 1
    IN <<(s * n) \div g, (s * d) \div g>>

\* IEEE: anything times not-a-number is not-a-number
RMul(a, b) == IF IsNaN(a) \/ IsNaN(b) THEN NaN ELSE Norm(a[1] * b[1], a[2] * b[2])

RAdd(a, b) ==
    IF IsNaN(a) \/ IsNaN(b) THEN NaN
    ELSE Norm(a[1] * b[2] + b[1] * a[2], a[2] * b[2])

\* IEEE: every comparison with not-a-number is false
RLess(a, b) == ~IsNaN(a) /\ ~IsNaN(b) /\ a[1] * b[2] < b[1] * a[2]

RLeq(a, b) == ~IsNaN(a) /\ ~IsNaN(b) /\ a[1] * b[2] <= b[1] * a[2]

RPos(a) == RLess(Zero, a)

\* ------------------------------------------------------------------- state
VARIABLES
    pc,             \* position in ridge_freq or frequest
    rows, cols,     \* im.shape
    block_size, kernel_size, minWaveLength, maxWaveLength,
    mask,           \* [pixel -> rational]
    orientShape,    \* <<rows, columns>> of the orientation field
    row, col,       \* the loop variables of lines 73-74
    freq,           \* [pixel -> rational]
    est,            \* [block -> the value frequest returned for it]
    medianfreq,     \* [pixel -> rational], the returned grid (line 86)
    err,            \* the exception that ended the call, "" when none
    ridge_sum,      \* frequest: line 43
    dilation,       \* frequest: line 44
    maxind,         \* frequest: line 48, 0-based indices
    freqim          \* frequest: the returned patch

vars == <<pc, rows, cols, block_size, kernel_size, minWaveLength, maxWaveLength,
          mask, orientShape, row, col, freq, est, medianfreq, err,
          ridge_sum, dilation, maxind, freqim>>

frequestvars == <<ridge_sum, dilation, maxind, freqim>>

params == <<rows, cols, block_size, kernel_size, minWaveLength, maxWaveLength,
            mask, orientShape>>

Pixels(r, c) == (0 .. r - 1) \X (0 .. c - 1)

\* ------------------------------------------------------- frequest, line 38-43
\* int(np.fix(rows/np.sqrt(2))): the largest c with c * sqrt(2) <= rows
Cropsze(r) == CHOOSE c \in 0 .. r : 2 * c * c <= r * r /\ 2 * (c + 1) * (c + 1) > r * r

Offset(r) == (r - Cropsze(r)) \div 2

Min2(a, b) == IF a < b THEN a ELSE b

\* rotim[offset:offset+cropsze][:,offset:offset+cropsze] keeps the columns
\* offset .. offset+cropsze-1 that exist; ridge_sum has one sample for each
ProfileLen(r, c) == Min2(c, Offset(r) + Cropsze(r)) - Min2(c, Offset(r))

\* what np.sum(rotim, axis = 0) can be: the rotation is not computed
Profiles(n) == [1 .. n -> 0 .. MaxVal]

RECURSIVE SumSeq(_)
SumSeq(s) == IF Len(s) = 0 THEN 0 ELSE s[1] + SumSeq(Tail(s))

\* ---------------------------------------------------------- frequest, line 44
\* scipy's mode='reflect' (d c b a | a b c d | d c b a), positions 1 .. n
RECURSIVE Reflect(_, _)
Reflect(i, n) ==
    IF i < 1 THEN Reflect(1 - i, n)
    ELSE IF i > n THEN Reflect(2 * n + 1 - i, n)
    ELSE i

\* np.ones(kernel_size): the structuring element, added to every sample of the window
Structure(k) == [j \in 1 .. k |-> 1]

\* scipy.ndimage.grey_dilation(ridge_sum, kernel_size, structure=np.ones(kernel_size)),
\* kernel_size odd: out[i] = max over the window of (input + structure)
grey_dilation(rs, k) ==
    [i \in 1 .. Len(rs) |->
        Max({rs[Reflect(i + j - 1 - (k \div 2), Len(rs))] + Structure(k)[j] : j \in 1 .. k})]

\* ------------------------------------------------------- frequest, line 46-49
\* ridge_sum > np.mean(ridge_sum), one sample
AboveMean(rs, i) == rs[i] * Len(rs) > SumSeq(rs)

\* a faulty variant: the noise test with <= for <
BelowOrAtNoise(rs, D, i) == Abs(D[i] - rs[i]) <= peak_thresh

\* ridge_noise < peak_thresh, one sample
BelowNoise(rs, D, i) == Abs(D[i] - rs[i]) < peak_thresh

maxpts(rs, D) == {i \in 1 .. Len(rs) : BelowNoise(rs, D, i) /\ AboveMean(rs, i)}

RECURSIVE Ascending(_)
Ascending(S) ==
    IF S = {} THEN <<>>
    ELSE LET m == CHOOSE x \in S : \A y \in S : x <= y
         IN <<m>> \o Ascending(S \ {m})

\* np.where(maxpts): the 0-based indices, ascending
np_where(S) == [i \in 1 .. Cardinality(S) |-> Ascending(S)[i] - 1]

\* ------------------------------------------------------- frequest, line 55-62
\* waveLength>=minWaveLength and waveLength<=maxWaveLength
\* a faulty variant: the upper bound exclusive
WaveLengthStrict(wl, minW, maxW) == RLeq(<<minW, 1>>, wl) /\ RLess(wl, <<maxW, 1>>)

\* a faulty variant: the upper bound not tested
WaveLengthMinOnly(wl, minW, maxW) == RLeq(<<minW, 1>>, wl)

WaveLengthAccepted(wl, minW, maxW) == RLeq(<<minW, 1>>, wl) /\ RLeq(wl, <<maxW, 1>>)

\* the value every entry of freqim has
FreqOfPeaks(ind, minW, maxW) ==
    LET NoOfPeaks == Len(ind)
    IN  IF NoOfPeaks < 2 THEN Zero
        ELSE LET num == ind[NoOfPeaks] - ind[1]
                 den == NoOfPeaks - 1
             IN IF WaveLengthAccepted(Norm(num, den), minW, maxW)
                THEN Norm(den, num) ELSE Zero

\* lines 44-62 on a projected profile
frequest(rs, k, minW, maxW) ==
    FreqOfPeaks(np_where(maxpts(rs, grey_dilation(rs, k))), minW, maxW)

\* ---------------------------------------------------------------- ridge_freq
\* range(0, stop, step), step # 0
PyRange(stop, step) == IF step > 0 THEN {k \in 0 .. stop - 1 : k % step = 0} ELSE {}

\* the (row, col) pairs the loops of lines 73-74 visit
Grid == PyRange(rows - block_size, block_size) \X PyRange(cols - block_size, block_size)

\* the pixels freq[row:row + block_size][:, col:col + block_size] names
Rect(b) == (b[1] .. b[1] + block_size - 1) \X (b[2] .. b[2] + block_size - 1)

\* a faulty variant: the slice one row and one column too long
WriteBlockWide(f, b, v) ==
    [p \in DOMAIN f |->
        IF p \in (b[1] .. b[1] + block_size) \X (b[2] .. b[2] + block_size) THEN v ELSE f[p]]

\* line 77: the patch, constant v, assigned to the block's slice of freq
WriteBlock(f, b, v) == [p \in DOMAIN f |-> IF p \in Rect(b) THEN v ELSE f[p]]

\* line 76: orient[row // block_size][col // block_size] exists
OrientOK(b) ==
    /\ b[1] \div block_size < orientShape[1]
    /\ b[2] \div block_size < orientShape[2]

\* a faulty variant: the mask added
MaskAdd(f, m) == [p \in DOMAIN f |-> RAdd(f[p], m[p])]

\* line 79: freq*mask
MaskMul(f, m) == [p \in DOMAIN f |-> RMul(f[p], m[p])]

\* a faulty variant: freq_1d>=0
PositiveOrZero(f) == {p \in DOMAIN f : RLeq(Zero, f[p])}

\* line 81: np.where(freq_1d>0)
Positive(f) == {p \in DOMAIN f : RPos(f[p])}

\* the k-th smallest of the values f has on P, 1 <= k <= Cardinality(P)
Kth(f, P, k) ==
    CHOOSE v \in {f[p] : p \in P} :
        /\ Cardinality({p \in P : RLess(f[p], v)}) < k
        /\ k <= Cardinality({p \in P : RLeq(f[p], v)})

\* a faulty variant: the upper of the two middle values for an even count
np_median_upper(f, P) ==
    LET n == Cardinality(P)
    IN  IF n = 0 THEN NaN ELSE Kth(f, P, n \div 2 + 1)

\* np.median of the values f has on P: the middle one, the mean of the two
\* middle ones for an even count, nan (and a RuntimeWarning) for none
np_median(f, P) ==
    LET n == Cardinality(P)
    IN  IF n = 0 THEN NaN
        ELSE IF n % 2 = 1 THEN Kth(f, P, (n + 1) \div 2)
        ELSE RMul(Half, RAdd(Kth(f, P, n \div 2), Kth(f, P, n \div 2 + 1)))

\* ----------------------------------------------------------------- inputs
\* kernel_size: odd as documented (line 13), and 0, which is no window
KernelSizes == {0, 1, 3}

DriverKernelSizes == {0, 3}

MaskKinds == {"zeros", "ones", "binary", "weights"}

MaskOf(kind, r, c) ==
    [p \in Pixels(r, c) |->
        CASE kind = "zeros" -> Zero
          [] kind = "ones" -> One
          [] kind = "binary" -> IF (p[1] + p[2]) % 2 = 0 THEN One ELSE Zero
          [] OTHER -> IF p[1] = 0 \/ p[2] = 0 THEN Zero
                      ELSE IF (p[1] + p[2]) % 2 = 1 THEN Half ELSE One]

\* an orientation field of one entry, or of one entry for every pixel of an R x C image
OrientShapes(R, C) == {<<1, 1>>, <<R, C>>}

NoPatch == [shape |-> <<0, 0>>, val |-> Zero]

\* the call of ridge_freq on an image of at most R x C pixels
InitOf(R, C) ==
    /\ pc = "start"
    /\ rows \in 1 .. R
    /\ cols \in 1 .. C
    /\ block_size \in -1 .. MaxBlock
    /\ kernel_size \in DriverKernelSizes
    /\ minWaveLength \in 1 .. MaxWave
    /\ maxWaveLength \in 1 .. MaxWave
    /\ \E kind \in MaskKinds : mask = MaskOf(kind, rows, cols)
    /\ orientShape \in OrientShapes(R, C)
    /\ row = 0 /\ col = 0
    /\ freq = <<>> /\ est = <<>> /\ medianfreq = <<>>
    /\ err = ""
    /\ ridge_sum = <<>> /\ dilation = <<>> /\ maxind = <<>> /\ freqim = NoPatch

Init == InitOf(MaxRows, MaxCols)

\* lines 70-73, block_size = 0: range() arg 3 must not be zero
EnterRaise ==
    /\ pc = "start"
    /\ block_size = 0
    /\ freq' = [p \in Pixels(rows, cols) |-> Zero]
    /\ pc' = "raised" /\ err' = "ValueError"
    /\ UNCHANGED <<params, row, col, est, medianfreq, frequestvars>>

\* lines 70-74 up to the first block, or past the loops when they visit none
Enter ==
    /\ pc = "start"
    /\ block_size # 0
    /\ freq' = [p \in Pixels(rows, cols) |-> Zero]
    /\ pc' = IF Grid = {} THEN "mask" ELSE "loop"
    /\ UNCHANGED <<params, row, col, est, medianfreq, err, frequestvars>>

\* line 76: IndexError
BlockOrientRaise ==
    /\ pc = "loop"
    /\ ~OrientOK(<<row, col>>)
    /\ pc' = "raised" /\ err' = "IndexError"
    /\ UNCHANGED <<params, row, col, freq, est, medianfreq, frequestvars>>

\* line 77 -> line 44: np.ones(kernel_size) is no structuring element
BlockKernelRaise ==
    /\ pc = "loop"
    /\ OrientOK(<<row, col>>)
    /\ kernel_size <= 0
    /\ pc' = "raised" /\ err' = "RuntimeError"
    /\ UNCHANGED <<params, row, col, freq, est, medianfreq, frequestvars>>

\* lines 75-77 for block b, whose projected profile is rs
BlockBody(b, rs) ==
    LET v == frequest(rs, kernel_size, minWaveLength, maxWaveLength)
    IN  /\ freq' = WriteBlock(freq, b, v)
        /\ est' = [x \in DOMAIN est \cup {b} |-> IF x = b THEN v ELSE est[x]]

\* one iteration of the inner loop, and the step to the next one
BlockStep ==
    /\ pc = "loop"
    /\ OrientOK(<<row, col>>)
    /\ kernel_size > 0
    /\ \E rs \in Profiles(ProfileLen(block_size, block_size)) : BlockBody(<<row, col>>, rs)
    /\ IF col + block_size < cols - block_size
       THEN row' = row /\ col' = col + block_size /\ pc' = "loop"
       ELSE IF row + block_size < rows - block_size
       THEN row' = row + block_size /\ col' = 0 /\ pc' = "loop"
       ELSE row' = row /\ col' = col /\ pc' = "mask"
    /\ UNCHANGED <<params, medianfreq, err, frequestvars>>

\* line 79
MaskStep ==
    /\ pc = "mask"
    /\ freq' = MaskMul(freq, mask)
    /\ pc' = "median"
    /\ UNCHANGED <<params, row, col, est, medianfreq, err, frequestvars>>

\* lines 80-88
MedianStep ==
    /\ pc = "median"
    /\ medianfreq' = [p \in DOMAIN mask |-> RMul(np_median(freq, Positive(freq)), mask[p])]
    /\ pc' = "done"
    /\ UNCHANGED <<params, row, col, freq, est, err, frequestvars>>

Next ==
    \/ EnterRaise
    \/ Enter
    \/ BlockOrientRaise
    \/ BlockKernelRaise
    \/ BlockStep
    \/ MaskStep
    \/ MedianStep

Spec == Init /\ [][Next]_vars

\* ------------------------------------------- the blocks taken in any order
\* ridge_freq on an input no step of which raises, of at most MaxParBlocks blocks
InitAnyOrder ==
    /\ InitOf(MaxParRows, MaxCols)
    /\ block_size > 0
    /\ kernel_size > 0
    /\ orientShape = <<MaxParRows, MaxCols>>
    /\ Cardinality(Grid) <= MaxParBlocks

\* lines 75-77 for any block not yet estimated; the join after the last one
AnyBlockStep ==
    /\ pc = "loop"
    /\ \E b \in Grid \ DOMAIN est :
        /\ \E rs \in Profiles(ProfileLen(block_size, block_size)) : BlockBody(b, rs)
        /\ row' = b[1] /\ col' = b[2]
        /\ pc' = IF DOMAIN est \cup {b} = Grid THEN "mask" ELSE "loop"
    /\ UNCHANGED <<params, medianfreq, err, frequestvars>>

NextAnyOrder ==
    \/ Enter
    \/ AnyBlockStep
    \/ MaskStep
    \/ MedianStep

SpecAnyOrder == InitAnyOrder /\ [][NextAnyOrder]_vars

\* ------------------------------------------------------ frequest on its own
\* a block of rows x cols pixels; ridge_freq's variables are not in use
InitFrequest ==
    /\ pc = "f_start"
    /\ rows \in 0 .. MaxImRows
    /\ cols \in {rows, rows + 1}
    /\ kernel_size \in KernelSizes
    /\ minWaveLength \in 1 .. MaxWave
    /\ maxWaveLength \in 1 .. MaxWave
    /\ block_size = 0 /\ mask = <<>> /\ orientShape = <<0, 0>>
    /\ row = 0 /\ col = 0
    /\ freq = <<>> /\ est = <<>> /\ medianfreq = <<>>
    /\ err = ""
    /\ ridge_sum = <<>> /\ dilation = <<>> /\ maxind = <<>> /\ freqim = NoPatch

\* lines 21-43: the block rotated, cropped and summed down its columns
Rotate ==
    /\ pc = "f_start"
    /\ ridge_sum' \in Profiles(ProfileLen(rows, cols))
    /\ pc' = "f_profile"
    /\ UNCHANGED <<params, row, col, freq, est, medianfreq, err, dilation, maxind, freqim>>

\* line 33, a block with no pixel: with order = 3 and mode = 'nearest' scipy (1.6 on)
\* pads the block by np.pad(..., mode='edge') before the spline filter, which numpy
\* refuses for an axis of length 0 (ValueError); an older scipy does not pad, and
\* Rotate is the outcome
RotateRaise ==
    /\ pc = "f_start"
    /\ rows = 0 \/ cols = 0
    /\ pc' = "raised" /\ err' = "ValueError"
    /\ UNCHANGED <<params, row, col, freq, est, medianfreq, frequestvars>>

\* line 44, kernel_size <= 0
PeaksRaise ==
    /\ pc = "f_profile"
    /\ kernel_size <= 0
    /\ pc' = "raised" /\ err' = "RuntimeError"
    /\ UNCHANGED <<params, row, col, freq, est, medianfreq, frequestvars>>

\* lines 44-49
Peaks ==
    /\ pc = "f_profile"
    /\ kernel_size > 0
    /\ dilation' = grey_dilation(ridge_sum, kernel_size)
    /\ maxind' = np_where(maxpts(ridge_sum, grey_dilation(ridge_sum, kernel_size)))
    /\ pc' = "f_peaks"
    /\ UNCHANGED <<params, row, col, freq, est, medianfreq, err, ridge_sum, freqim>>

\* lines 55-63
Result ==
    /\ pc = "f_peaks"
    /\ freqim' = [shape |-> <<rows, cols>>,
                  val |-> FreqOfPeaks(maxind, minWaveLength, maxWaveLength)]
    /\ pc' = "f_done"
    /\ UNCHANGED <<params, row, col, freq, est, medianfreq, err, ridge_sum, dilation, maxind>>

NextFrequest ==
    \/ Rotate
    \/ RotateRaise
    \/ PeaksRaise
    \/ Peaks
    \/ Result

SpecFrequest == InitFrequest /\ [][NextFrequest]_vars

\* ================================================================ properties
FrequestPcs == {"f_start", "f_profile", "f_peaks", "f_done"}

AfterLoops == {"mask", "median", "done"}

\* the pixels some estimated block has written
Written == UNION {Rect(b) \cap Pixels(rows, cols) : b \in DOMAIN est}

\* the plain maximum of rs over the window of width k centred at position i
PlainMax(rs, i, k) ==
    Max({rs[j] : j \in {x \in (i - k \div 2) .. (i + k \div 2) : 1 <= x /\ x <= Len(rs)}})

InMaxind(i) == \E x \in 1 .. Len(maxind) : maxind[x] = i

StrictlyAscending(s) == \A x \in 1 .. Len(s) - 1 : s[x] < s[x + 1]

\* ------------------------------------------------------------------------ C1
\* C1: once the loops are over, the pixels written by a block are exactly those
\* with i < floor(rows/block_size)*block_size and j < floor(cols/block_size)*block_size.
C1_FullGridWritten ==
    (pc \in AfterLoops /\ block_size > 0) =>
        Written = {p \in Pixels(rows, cols) :
                      /\ p[1] < (rows \div block_size) * block_size
                      /\ p[2] < (cols \div block_size) * block_size}

\* ------------------------------------------------------------------------ C2
\* C2: when no entry of the masked map is strictly positive, the median step
\* does not raise: it ends the call, and every entry of the returned grid is
\* not-a-number.
C2_EmptyMedianIsNaN ==
    [][(pc = "median" /\ \A p \in DOMAIN freq : ~RPos(freq[p])) =>
          /\ pc' = "done"
          /\ err' = ""
          /\ DOMAIN medianfreq' = Pixels(rows, cols)
          /\ \A p \in DOMAIN medianfreq' : IsNaN(medianfreq'[p])]_vars

C2_Witness ==
    /\ pc = "done"
    /\ \A p \in DOMAIN freq : ~RPos(freq[p])
    /\ \E b \in DOMAIN est : RPos(est[b])
    /\ \A p \in DOMAIN medianfreq : IsNaN(medianfreq[p])

\* ------------------------------------------------------------------------ C3
OrientTooSmall == block_size > 0 /\ \E b \in Grid : ~OrientOK(b)

ConfigViolation ==
    \/ block_size <= 0
    \/ kernel_size <= 0
    \/ minWaveLength > maxWaveLength
    \/ OrientTooSmall

\* C3: a call with a shape or parameter violation estimates no block and never
\* gets past the loops: it ends in an error raised before any block is estimated.
C3_ViolationsRejectedFirst ==
    ConfigViolation => (DOMAIN est = {} /\ pc \notin AfterLoops)

\* ------------------------------------------------------------------------ C4
BinaryMask == \A p \in DOMAIN mask : mask[p] \in {Zero, One}

ValidInput ==
    /\ block_size > 0
    /\ 0 < minWaveLength /\ minWaveLength <= maxWaveLength
    /\ BinaryMask

\* 0, or n/d = 1/w with minWaveLength <= w = d/n <= maxWaveLength
ZeroOrReciprocal(v) ==
    \/ v = Zero
    \/ /\ v[1] > 0 /\ v[2] > 0
       /\ minWaveLength * v[1] <= v[2]
       /\ v[2] <= maxWaveLength * v[1]

\* C4: for valid inputs the frequency map, before and after the mask, has the
\* image's shape and every entry is 0 or the reciprocal of a wavelength within
\* [minWaveLength, maxWaveLength].
C4_MapShapeAndRange ==
    (ValidInput /\ pc # "start") =>
        /\ DOMAIN freq = Pixels(rows, cols)
        /\ \A p \in DOMAIN freq : ZeroOrReciprocal(freq[p])

C4_Witness ==
    /\ ValidInput
    /\ pc = "median"
    /\ \E p \in DOMAIN freq : RPos(freq[p])
    /\ \E b \in DOMAIN est : RPos(est[b]) /\ \E p \in Rect(b) : freq[p] = Zero
    /\ \E p \in DOMAIN freq \ Written : freq[p] = Zero

\* ------------------------------------------------------------------------ C5
\* C5: the patch frequest returns has the block's shape; it is zero for fewer
\* than 2 peaks; otherwise, with wavelength = (last - first)/(peaks - 1), it is
\* 1/wavelength iff minWaveLength <= wavelength <= maxWaveLength, else zero.
C5_PatchFromPeaks ==
    pc = "f_done" =>
        LET n == Len(maxind)
            span == maxind[n] - maxind[1]
            v == freqim.val
        IN  /\ freqim.shape = <<rows, cols>>
            /\ n < 2 => v = Zero
            /\ n >= 2 =>
                 IF minWaveLength * (n - 1) <= span /\ span <= maxWaveLength * (n - 1)
                 THEN v[1] > 0 /\ v[2] > 0 /\ v[1] * span = v[2] * (n - 1)
                 ELSE v = Zero

\* the wavelength equal to maxWaveLength, and not to minWaveLength: accepted
C5_Witness ==
    /\ pc = "f_done"
    /\ Len(maxind) >= 2
    /\ minWaveLength < maxWaveLength
    /\ maxind[Len(maxind)] - maxind[1] = maxWaveLength * (Len(maxind) - 1)
    /\ freqim.val = <<1, maxWaveLength>>

\* ------------------------------------------------------------------------ C6
RECURSIVE SortedVals(_, _)
SortedVals(f, P) ==
    IF P = {} THEN <<>>
    ELSE LET p == CHOOSE x \in P : \A y \in P : RLeq(f[x], f[y])
         IN <<f[p]>> \o SortedVals(f, P \ {p})

\* the median of the strictly positive entries of f, from their sorted list
MedianOfPositive(f) ==
    LET s == SortedVals(f, {p \in DOMAIN f : RPos(f[p])})
        n == Len(s)
    IN  IF n = 0 THEN NaN
        ELSE IF n % 2 = 1 THEN s[(n + 1) \div 2]
        ELSE RMul(Half, RAdd(s[n \div 2], s[n \div 2 + 1]))

\* C6: the returned value at every pixel is m * mask there, m the median of the
\* strictly positive entries of the masked map; with an all-ones mask it is m.
C6_MedianTimesMask ==
    pc = "done" =>
        /\ DOMAIN medianfreq = Pixels(rows, cols)
        /\ \A p \in DOMAIN medianfreq :
               /\ medianfreq[p] = RMul(MedianOfPositive(freq), mask[p])
               /\ mask[p] = One => medianfreq[p] = MedianOfPositive(freq)

\* an even number of positive entries whose two middle values differ
C6_Witness ==
    /\ pc = "done"
    /\ LET s == SortedVals(freq, {p \in DOMAIN freq : RPos(freq[p])})
       IN  /\ Len(s) > 0 /\ Len(s) % 2 = 0
           /\ s[Len(s) \div 2] # s[Len(s) \div 2 + 1]
    /\ \E p \in DOMAIN medianfreq : RPos(medianfreq[p]) /\ mask[p] = Half
    /\ \E p \in DOMAIN medianfreq : medianfreq[p] = Zero

\* ------------------------------------------------------------------------ C7
\* a block with no pixel, a crop with no column, a flat profile, or no peak
DegenerateBlock ==
    \/ rows = 0 \/ cols = 0
    \/ ProfileLen(rows, cols) = 0
    \/ pc \in {"f_profile", "f_peaks", "f_done"}
         /\ \A i \in 1 .. Len(ridge_sum), j \in 1 .. Len(ridge_sum) : ridge_sum[i] = ridge_sum[j]
    \/ pc \in {"f_peaks", "f_done"} /\ Len(maxind) = 0

\* C7: for a degenerate block frequest never raises, and returns the all-zero
\* patch of the block's dimensions.
C7_DegenerateNeverRaises ==
    (kernel_size > 0 /\ DegenerateBlock /\ pc \in FrequestPcs \cup {"raised"}) =>
        /\ pc # "raised"
        /\ pc = "f_done" => freqim = [shape |-> <<rows, cols>>, val |-> Zero]

\* ------------------------------------------------------------------------ C8
\* C8: the masked map times the mask again is the masked map, for every mask.
C8_MaskIdempotent ==
    pc \in {"median", "done"} => MaskMul(freq, mask) = freq

\* C8, amended: the same for a mask with values in {0,1}.
C8_BinaryMaskIdempotent ==
    (pc \in {"median", "done"} /\ BinaryMask) => MaskMul(freq, mask) = freq

C8_Witness ==
    /\ pc = "median"
    /\ BinaryMask
    /\ \E p \in DOMAIN freq : RPos(freq[p])
    /\ \E b \in DOMAIN est : RPos(est[b]) /\ \E p \in Rect(b) : freq[p] = Zero

RECURSIVE LoopOrder(_)
LoopOrder(G) ==
    IF G = {} THEN <<>>
    ELSE LET b == CHOOSE x \in G :
                    \A y \in G : x[1] < y[1] \/ (x[1] = y[1] /\ x[2] <= y[2])
         IN <<b>> \o LoopOrder(G \ {b})

\* the map the loops build when they write the blocks of s in turn
RECURSIVE SequentialMap(_, _)
SequentialMap(f, s) ==
    IF Len(s) = 0 THEN f
    ELSE SequentialMap([p \in DOMAIN f |-> IF p \in Rect(s[1]) THEN est[s[1]] ELSE f[p]],
                       Tail(s))

\* C10: the rectangles of distinct blocks are disjoint; whatever the order of the
\* per-block steps, every estimated block's rectangle holds that block's estimate
\* and no other pixel has been written; when all blocks are done the map is the
\* one the sequential order builds; mask and median come after all blocks.
C10_BlocksIndependent ==
    /\ block_size > 0 =>
          \A a \in Grid, b \in Grid : a # b => Rect(a) \cap Rect(b) = {}
    /\ pc \in {"loop", "mask"} =>
          /\ DOMAIN est \subseteq Grid
          /\ \A b \in DOMAIN est : \A p \in Rect(b) : p \in DOMAIN freq /\ freq[p] = est[b]
          /\ \A p \in DOMAIN freq \ Written : freq[p] = Zero
    /\ pc = "loop" => DOMAIN est # Grid
    /\ pc \in AfterLoops => DOMAIN est = Grid
    /\ pc = "mask" =>
          freq = SequentialMap([p \in Pixels(rows, cols) |-> Zero], LoopOrder(Grid))

\* two blocks with different positive estimates, the last one in loop order not
\* the last one estimated
C10_Witness ==
    /\ pc = "mask"
    /\ Cardinality(Grid) >= 2
    /\ <<row, col>> # LoopOrder(Grid)[Cardinality(Grid)]
    /\ \E a \in Grid, b \in Grid : RPos(est[a]) /\ RPos(est[b]) /\ est[a] # est[b]

====
